---- MODULE Spec2Model ----
(***************************************************************************)
(* A model of DeltaWriter (be/src/olap/delta_writer.cpp): the per-load     *)
(* write path of one tablet.  One DeltaWriter instance is driven by one    *)
(* caller through write, close, cancel and the destructor.  The external   *)
(* collaborators (TabletManager, TxnManager, RowsetIdGenerator,            *)
(* RowsetWriter, MemTable, RowsetMetaManager, StorageEngine) are modelled  *)
(* by the state they hold and by a nondeterministic outcome per call.      *)
(*                                                                         *)
(* A pointer is a sequence: <<>> is nullptr, <<x>> points at x.            *)
(***************************************************************************)
EXTENDS Naturals, Sequences, FiniteSets

\* ------------------------------------------------------------- bounds
\* The number of write/close/cancel calls the caller makes on the instance.
MaxCalls == 3
\* The largest memory footprint of one inserted row.
MaxTupleSize == 2
\* config::write_buffer_size, the rotation threshold of write().
write_buffer_size == 2
\* (for the column mapping) the most columns a tablet schema has, and the
\* most calls made on one instance when the schema and row shape vary
MaxColumns == 3
MaxColsCalls == 2

\* ------------------------------------------------------------- values
Null == <<>>
Ptr(x) == <<x>>
Deref(p) == p[1]

OLAP_SUCCESS == "OLAP_SUCCESS"
OLAP_ERR_TABLE_NOT_FOUND == "OLAP_ERR_TABLE_NOT_FOUND"
OLAP_ERR_ROWSET_GENERATE_ID_FAILED == "OLAP_ERR_ROWSET_GENERATE_ID_FAILED"
OLAP_ERR_ROWSET_WRITER_INIT == "OLAP_ERR_ROWSET_WRITER_INIT"
OLAP_ERR_ROWSET_SAVE_FAILED == "OLAP_ERR_ROWSET_SAVE_FAILED"
\* Statuses passed through by RETURN_NOT_OK from a collaborator.
ERR_PREPARE_TXN == "ERR_PREPARE_TXN"
ERR_CREATE_DIRS == "ERR_CREATE_DIRS"
ERR_FLUSH == "ERR_FLUSH"
\* No status at all: the call did not return (the process was terminated).
NO_RETURN == "NO_RETURN"

\* The tablet the request names, and the tablet its schema change targets.
PrimaryTablet == "T"
NewTablet == "T2"
Tablets == {PrimaryTablet, NewTablet}
SchemaHashOf(t) == IF t = PrimaryTablet THEN "h" ELSE "h2"

\* The tablet schema's column names, in schema order.
TabletColumns == <<"a", "b", "c">>
\* The row shapes (slot names of the tuple descriptor) a request may carry.
SlotShapes == {<<"c", "a", "b">>}

\* The step of an operation that fails in one call (at most one checked
\* step fails per call, since every checked failure returns at once).
FailPoints == {"none", "prepare_txn", "create_dirs", "get_next_id", "writer_init",
               "flush", "mem_close", "build", "save", "create_dirs_related"}
\* What a dereference of a null rowset pointer does: the process dies, or
\* the call goes on with garbage and the save that reads it fails or not.
UBOutcomes == {"crash", "save_fails", "save_ok"}
Outcomes == [fail : FailPoints, rel_prepare_ok : BOOLEAN, ub : UBOutcomes]
\* The outcomes write can tell apart: it reads no rowset pointer and calls
\* neither close's collaborators.
WriteOutcomes ==
    {o \in Outcomes : /\ o.ub = "crash"
                      /\ o.fail \in {"none", "prepare_txn", "create_dirs",
                                     "get_next_id", "writer_init", "flush"}}
\* The outcomes close can tell apart: it flushes no MemTable by flush().
CloseOutcomes == {o \in Outcomes : o.fail # "flush"}

VARIABLES
    \* the DeltaWriter's fields
    _req, _tablet, _cur_rowset, _related_rowset, _related_tablet,
    _rowset_writer, _mem_table, _schema, _tablet_schema, _col_ids,
    _is_init, _delta_written_success,
    \* the collaborators
    tablet_mgr,      \* TabletManager: the tablets it knows
    schema_changing, \* whether the primary tablet has a schema change request
    tablet_schema,   \* the primary tablet's column names, in schema order
    txns,            \* TxnManager: the registered (partition, txn, tablet, hash)
    pending_dirs,    \* the tablets whose pending data dir exists
    next_rowset_id,  \* RowsetIdGenerator: the last id handed out
    rowset_meta,     \* RowsetMetaManager: the saved <<tablet, rowset id>>
    unused_rowsets,  \* StorageEngine: what add_unused_rowset was given
    tablet_vec,      \* the caller's output collection of close
    \* the caller's view and the history of the run
    pc,              \* "live", "destroyed" or "crashed"
    last_op, ret,    \* the last call and the status it returned
    trace,           \* the collaborator calls of the last call, in order
    cnt,             \* how often each collaborator call was made so far
    hist             \* what the run has seen so far

vars == <<_req, _tablet, _cur_rowset, _related_rowset, _related_tablet,
          _rowset_writer, _mem_table, _schema, _tablet_schema, _col_ids,
          _is_init, _delta_written_success,
          tablet_mgr, schema_changing, tablet_schema, txns, pending_dirs, next_rowset_id,
          rowset_meta, unused_rowsets, tablet_vec,
          pc, last_op, ret, trace, cnt, hist>>

CounterNames == {"call", "write", "close", "cancel", "get_tablet", "lock",
                 "prepare_txn", "prepare_txn_related", "create_dirs",
                 "get_next_id", "new_rowset_writer", "new_mem_table",
                 "init_ok", "insert", "flush", "build", "save", "save_related"}

\* ------------------------------------------------------------- state
\* The elements of a sequence.
Range(seq) == {seq[i] : i \in 1..Len(seq)}

\* The state as one record, so that an operation is a function of it.
Cur == [_tablet |-> _tablet, _cur_rowset |-> _cur_rowset,
        _related_rowset |-> _related_rowset, _related_tablet |-> _related_tablet,
        _rowset_writer |-> _rowset_writer, _mem_table |-> _mem_table,
        _schema |-> _schema, _tablet_schema |-> _tablet_schema,
        _col_ids |-> _col_ids, _is_init |-> _is_init,
        _delta_written_success |-> _delta_written_success,
        txns |-> txns, pending_dirs |-> pending_dirs,
        next_rowset_id |-> next_rowset_id, rowset_meta |-> rowset_meta,
        unused_rowsets |-> unused_rowsets, tablet_vec |-> tablet_vec,
        pc |-> pc, last_op |-> last_op, ret |-> ret, trace |-> trace,
        cnt |-> cnt, hist |-> hist]

Becomes(s) ==
    /\ _tablet' = s._tablet
    /\ _cur_rowset' = s._cur_rowset
    /\ _related_rowset' = s._related_rowset
    /\ _related_tablet' = s._related_tablet
    /\ _rowset_writer' = s._rowset_writer
    /\ _mem_table' = s._mem_table
    /\ _schema' = s._schema
    /\ _tablet_schema' = s._tablet_schema
    /\ _col_ids' = s._col_ids
    /\ _is_init' = s._is_init
    /\ _delta_written_success' = s._delta_written_success
    /\ txns' = s.txns
    /\ pending_dirs' = s.pending_dirs
    /\ next_rowset_id' = s.next_rowset_id
    /\ rowset_meta' = s.rowset_meta
    /\ unused_rowsets' = s.unused_rowsets
    /\ tablet_vec' = s.tablet_vec
    /\ pc' = s.pc
    /\ last_op' = s.last_op
    /\ ret' = s.ret
    /\ trace' = s.trace
    /\ cnt' = s.cnt
    /\ hist' = s.hist
    /\ UNCHANGED <<_req, tablet_mgr, schema_changing, tablet_schema>>

\* A collaborator call e is made: it is logged and counted.
Call(s, e) == [s EXCEPT !.trace = Append(@, e)]
Count(s, c) == [s EXCEPT !.cnt[c] = @ + 1]
\* The collaborator call just made failed; failed_at is the place in the
\* trace of the first call that failed in the current operation.
Failed(s) ==
    [s EXCEPT !.hist.any_fail = TRUE,
              !.hist.failed_at = IF @ = 0 THEN Len(s.trace) ELSE @]
Return(s, status) == [s EXCEPT !.ret = status]
\* The process is terminated inside the call: nothing returns.
Crash(s) == [s EXCEPT !.ret = NO_RETURN, !.pc = "crashed"]

TxnKey(tablet) == <<_req.partition_id, _req.txn_id, tablet, SchemaHashOf(tablet)>>

\* ------------------------------------------------------------- MemTable
\* A MemTable: the rows inserted so far, in insertion order, and what has
\* been done with it.  gen numbers the MemTables of one DeltaWriter.
NewMemTable(gen) ==
    [gen |-> gen, rows |-> <<>>, flushed |-> 0, flush_failed |-> FALSE,
     close_failed |-> FALSE, late_inserts |-> 0]

RECURSIVE SumSizes(_)
SumSizes(rows) ==
    IF rows = <<>> THEN 0 ELSE Head(rows).size + SumSizes(Tail(rows))

\* MemTable::memory_usage
memory_usage(mt) == SumSizes(mt.rows)

\* MemTable::insert; an insert after a flush or close of the same MemTable
\* is counted in late_inserts.
MemInsert(mt, tuple) ==
    [mt EXCEPT !.rows = Append(@, tuple),
               !.late_inserts = IF mt.flushed > 0 \/ mt.flush_failed \/ mt.close_failed
                                THEN @ + 1 ELSE @]

\* MemTable::flush, seen from the MemTable.
MemFlushed(mt, ok) ==
    IF ok THEN [mt EXCEPT !.flushed = @ + 1] ELSE [mt EXCEPT !.flush_failed = TRUE]

\* MemTable::close, seen from the MemTable.
MemClosed(mt, ok) ==
    IF ok THEN [mt EXCEPT !.flushed = @ + 1] ELSE [mt EXCEPT !.close_failed = TRUE]

\* ------------------------------------------------------------- RowsetWriter
NewRowsetWriter(tablet) ==
    [rowset_id |-> 0, tablet_id |-> tablet, inited |-> FALSE,
     batches |-> <<>>, built |-> 0]

\* RowsetWriter::init(context)
WriterInited(w, rowset_id) == [w EXCEPT !.rowset_id = rowset_id, !.inited = TRUE]

\* The batch a flush or close of a MemTable adds to the RowsetWriter.
WriterAdd(w, rows) == [w EXCEPT !.batches = Append(@, rows)]

\* RowsetWriter::build: the rowset holds the batches added so far.
BuiltRowset(w) ==
    [rowset_id |-> w.rowset_id, tablet_id |-> w.tablet_id, valid |-> TRUE,
     batches |-> w.batches]

\* What RowsetMetaManager::save stores for a rowset.
MetaOf(tablet, rowset) ==
    [tablet_id |-> tablet, rowset_id |-> rowset.rowset_id, valid |-> TRUE]
\* What it stores when the rowset pointer it was given was null.
GarbageMeta(tablet) == [tablet_id |-> tablet, rowset_id |-> 0, valid |-> FALSE]

\* ------------------------------------------------------------- init
\* The inner loop recording the slot's number counted from one.
RECURSIVE SlotsNamed_one_based(_, _, _)
SlotsNamed_one_based(slots, column, i) ==
    IF i > Len(slots) THEN <<>>
    ELSE (IF slots[i] = column THEN <<i>> ELSE <<>>)
         \o SlotsNamed_one_based(slots, column, i + 1)

\* The inner loop of the column mapping: the slots named like column,
\* from slot i on, by their 0-based positions.
RECURSIVE SlotsNamed(_, _, _)
SlotsNamed(slots, column, i) ==
    IF i > Len(slots) THEN <<>>
    ELSE (IF slots[i] = column THEN <<i - 1>> ELSE <<>>)
         \o SlotsNamed(slots, column, i + 1)

\* The outer loop: one pass over the schema's columns, from col_id on.
RECURSIVE ColIds(_, _, _)
ColIds(columns, slots, col_id) ==
    IF col_id > Len(columns) THEN <<>>
    ELSE SlotsNamed(slots, columns[col_id], 1) \o ColIds(columns, slots, col_id + 1)

\* init_get_tablet with the lookup by tablet id alone, over every tablet the
\* storage has ever held: it then finds a tablet the TabletManager dropped.
init_get_tablet_stale(s) ==
    [Count(Call(s, "get_tablet"), "get_tablet") EXCEPT !._tablet = Ptr(_req.tablet_id)]

\* TabletManager::get_tablet(_req.tablet_id, _req.schema_hash)
init_get_tablet(s) ==
    LET a == Count(Call(s, "get_tablet"), "get_tablet")
    IN  IF _req.tablet_id \in tablet_mgr
        THEN [a EXCEPT !._tablet = Ptr(_req.tablet_id)]
        ELSE [Failed(a) EXCEPT !._tablet = Null]

\* init_schema_change without the test of _req.need_gen_rollup.
init_schema_change_unflagged(s, o) ==
    LET  a == Call(Call(Call(s, "obtain_header_rdlock"),
                                  "get_schema_change_request"),
                             "release_header_lock")
         IN  IF ~schema_changing THEN a
             ELSE LET found == NewTablet \in tablet_mgr
                      l == Call(a, "get_tablet_related")
                      b == [(IF found THEN l ELSE Failed(l)) EXCEPT
                               !._related_tablet =
                                   IF found THEN Ptr(NewTablet) ELSE Null,
                               !.hist.schema_change_seen = TRUE]
                      c == Count(Call(b, "prepare_txn_related"), "prepare_txn_related")
                  IN  \* the status of this prepare_txn is not looked at
                      IF o.rel_prepare_ok
                      THEN [c EXCEPT !.txns = @ \cup {TxnKey(NewTablet)},
                                     !.hist.prepared = @ \cup {TxnKey(NewTablet)}]
                      ELSE Failed(c)

\* The schema change detection under the push lock.
init_schema_change(s, o) ==
    IF ~_req.need_gen_rollup THEN s
    ELSE LET a == Call(Call(Call(s, "obtain_header_rdlock"),
                                  "get_schema_change_request"),
                             "release_header_lock")
         IN  IF ~schema_changing THEN a
             ELSE LET found == NewTablet \in tablet_mgr
                      l == Call(a, "get_tablet_related")
                      b == [(IF found THEN l ELSE Failed(l)) EXCEPT
                               !._related_tablet =
                                   IF found THEN Ptr(NewTablet) ELSE Null,
                               !.hist.schema_change_seen = TRUE]
                      c == Count(Call(b, "prepare_txn_related"), "prepare_txn_related")
                  IN  \* the status of this prepare_txn is not looked at
                      IF o.rel_prepare_ok
                      THEN [c EXCEPT !.txns = @ \cup {TxnKey(NewTablet)},
                                     !.hist.prepared = @ \cup {TxnKey(NewTablet)}]
                      ELSE Failed(c)

\* The pending data dir of a tablet: created unless it exists.  The
\* result's ret is OLAP_SUCCESS or the status of create_dirs.
create_pending_dir(s, tablet, ok) ==
    IF tablet \in s.pending_dirs THEN Return(s, OLAP_SUCCESS)
    ELSE LET a == Count(Call(s, "create_dirs"), "create_dirs")
         IN  IF ok THEN Return([a EXCEPT !.pending_dirs = @ \cup {tablet}], OLAP_SUCCESS)
             ELSE Return(Failed(a), ERR_CREATE_DIRS)

\* init_locked with the push lock taken and released by hand instead of by
\* a scoped MutexLock: the early return of a failed prepare_txn skips the
\* release.
init_locked_manual_unlock(s, o) ==
    LET a == Count(Call(s, "lock"), "lock")
        b == Count(Call(a, "prepare_txn"), "prepare_txn")
    IN  IF o.fail = "prepare_txn"
        THEN Return(Failed(b), ERR_PREPARE_TXN)
        ELSE LET c == [b EXCEPT !.txns = @ \cup {TxnKey(_req.tablet_id)},
                                !.hist.prepared = @ \cup {TxnKey(_req.tablet_id)}]
                 d == init_schema_change(c, o)
                 e == create_pending_dir(d, Deref(d._tablet), o.fail # "create_dirs")
             IN  Call(e, "unlock")

\* The block under the tablet's push lock; the MutexLock is released when
\* the block is left, by a return as well.
init_locked(s, o) ==
    LET a == Count(Call(s, "lock"), "lock")
        b == Count(Call(a, "prepare_txn"), "prepare_txn")
    IN  IF o.fail = "prepare_txn"
        THEN Return(Call(Failed(b), "unlock"), ERR_PREPARE_TXN)
        ELSE LET c == [b EXCEPT !.txns = @ \cup {TxnKey(_req.tablet_id)},
                                !.hist.prepared = @ \cup {TxnKey(_req.tablet_id)}]
                 d == init_schema_change(c, o)
                 e == create_pending_dir(d, Deref(d._tablet), o.fail # "create_dirs")
             IN  Call(e, "unlock")

\* The rowset id and the RowsetWriter.
init_rowset_writer(s, o) ==
    LET a == Count(Call(s, "get_next_id"), "get_next_id")
    IN  IF o.fail = "get_next_id"
        THEN Return(Failed(a), OLAP_ERR_ROWSET_GENERATE_ID_FAILED)
        ELSE LET rowset_id == a.next_rowset_id + 1
                 b == [Count(a, "new_rowset_writer") EXCEPT
                          !.next_rowset_id = rowset_id,
                          !._rowset_writer = Ptr(NewRowsetWriter(_req.tablet_id))]
                 c == Call(b, "writer_init")
             IN  IF o.fail = "writer_init"
                 THEN Return(Failed(c), OLAP_ERR_ROWSET_WRITER_INIT)
                 ELSE Return([c EXCEPT !._rowset_writer =
                                 Ptr(WriterInited(Deref(@), rowset_id))],
                             OLAP_SUCCESS)

\* The column mapping, the schema and the first MemTable.
init_mem_table(s) ==
    LET a == Count(Count(s, "new_mem_table"), "init_ok")
    IN  Return([a EXCEPT
                   !._col_ids = @ \o ColIds(tablet_schema, _req.slots, 1),
                   !._tablet_schema = Ptr(tablet_schema),
                   !._schema = Ptr(tablet_schema),
                   !._mem_table = Ptr(NewMemTable(a.cnt["new_mem_table"])),
                   !._is_init = TRUE],
               OLAP_SUCCESS)

\* DeltaWriter::init
init(s, o) ==
    LET a == init_get_tablet(s)
    IN  IF a._tablet = Null THEN Return(a, OLAP_ERR_TABLE_NOT_FOUND)
        ELSE LET b == init_locked(a, o)
             IN  IF b.ret # OLAP_SUCCESS THEN b
                 ELSE LET c == init_rowset_writer(b, o)
                      IN  IF c.ret # OLAP_SUCCESS THEN c
                          ELSE init_mem_table(c)

\* ------------------------------------------------------------- write
\* A call of the caller begins: the last call's trace is dropped.
BeginCall(s, op) ==
    [Count(Count(s, "call"), op) EXCEPT
        !.last_op = op, !.trace = <<>>,
        !.hist.usage_after_insert = 0, !.hist.rotated = FALSE,
        !.hist.failed_at = 0,
        !.hist.vec_len0 = Len(s.tablet_vec),
        !.hist.flag0 = s._delta_written_success,
        !.hist.related_failed = IF op = "close" THEN FALSE ELSE @]

\* ensure_init without the test of _is_init.
ensure_init_unguarded(s, o) == init(s, o)

\* "if (!_is_init) { st = init(); ... }": the state after it, with ret
\* the status of init, or OLAP_SUCCESS when init was not needed.
ensure_init(s, o) ==
    IF ~s._is_init THEN init(s, o) ELSE Return(s, OLAP_SUCCESS)

\* _mem_table->insert(tuple)
write_insert(s, tuple) ==
    LET mt == Deref(s._mem_table)
    IN  [Count(Call(s, "insert"), "insert") EXCEPT
            !._mem_table = Ptr(MemInsert(mt, tuple)),
            !.hist.inserted = @ \cup {tuple.id},
            !.hist.usage_after_insert = memory_usage(MemInsert(mt, tuple)),
            !.hist.insert_after_failed_flush = @ \/ mt.flush_failed]

\* write_rotate without the swap of the MemTable after the flush: the
\* flushed MemTable stays the active one.
write_rotate_keeps_buffer(s, o) ==
    LET a == Count(Call(s, "flush"), "flush")
        mt == Deref(a._mem_table)
    IN  IF o.fail = "flush"
        THEN Return([Failed(a) EXCEPT !._mem_table = Ptr(MemFlushed(mt, FALSE))],
                    ERR_FLUSH)
        ELSE Return([a EXCEPT
                        !._rowset_writer = Ptr(WriterAdd(Deref(@), mt.rows)),
                        !._mem_table = Ptr(MemFlushed(mt, TRUE)),
                        !.hist.rotations = @ + 1,
                        !.hist.rotated = TRUE],
                    OLAP_SUCCESS)

\* The rotation of the MemTable once the threshold is reached: the flush
\* into the RowsetWriter, then the new MemTable.
write_rotate(s, o) ==
    LET a == Count(Call(s, "flush"), "flush")
        mt == Deref(a._mem_table)
    IN  IF o.fail = "flush"
        THEN Return([Failed(a) EXCEPT !._mem_table = Ptr(MemFlushed(mt, FALSE))],
                    ERR_FLUSH)
        ELSE LET b == [a EXCEPT !._rowset_writer = Ptr(WriterAdd(Deref(@), mt.rows))]
                 c == Count(b, "new_mem_table")
             IN  Return([c EXCEPT
                            !._mem_table = Ptr(NewMemTable(c.cnt["new_mem_table"])),
                            !.hist.rotations = @ + 1,
                            !.hist.rotated = TRUE],
                        OLAP_SUCCESS)

\* The caller's record of a write: the rows whose write returned an error.
write_returned(s, tuple) ==
    [s EXCEPT !.hist.failed_writes =
                 IF s.ret # OLAP_SUCCESS THEN @ \cup {tuple.id} ELSE @]

\* DeltaWriter::write
write(s, tuple, o) ==
    LET a == ensure_init(s, o)
    IN  IF a.ret # OLAP_SUCCESS THEN write_returned(a, tuple)
        ELSE LET b == write_insert(a, tuple)
             IN  IF memory_usage(Deref(b._mem_table)) >= write_buffer_size
                 THEN write_returned(write_rotate(b, o), tuple)
                 ELSE write_returned(Return(b, OLAP_SUCCESS), tuple)

\* ------------------------------------------------------------- close
\* _mem_table->close(_rowset_writer)
close_mem_table(s, o) ==
    LET a == Call(s, "mem_close")
        mt == Deref(a._mem_table)
    IN  IF o.fail = "mem_close"
        THEN Return([Failed(a) EXCEPT !._mem_table = Ptr(MemClosed(mt, FALSE))],
                    ERR_FLUSH)
        ELSE Return([a EXCEPT
                        !._rowset_writer = Ptr(WriterAdd(Deref(@), mt.rows)),
                        !._mem_table = Ptr(MemClosed(mt, TRUE))],
                    OLAP_SUCCESS)

\* _cur_rowset = _rowset_writer->build(): a rowset, or null when the build
\* fails.
close_build(s, o) ==
    LET a == Count(Call(s, "build"), "build")
        w == Deref(a._rowset_writer)
    IN  IF o.fail = "build"
        THEN [Failed(a) EXCEPT !._cur_rowset = Null]
        ELSE [a EXCEPT !._cur_rowset = Ptr(BuiltRowset(w)),
                       !._rowset_writer = Ptr([w EXCEPT !.built = @ + 1])]

\* RowsetMetaManager::save of the rowset `rowset` points at, for `tablet`.
\* The rowset's id and meta are read through the pointer without a null
\* test; through a null pointer the read is undefined behaviour.  The
\* result's ret is OLAP_SUCCESS, OLAP_ERR_ROWSET_SAVE_FAILED or NO_RETURN.
save_rowset(s, tablet, rowset, counter, o) ==
    LET a == Count(Call(s, counter), counter)
    IN  IF rowset = Null
        THEN LET b == [a EXCEPT !.hist.null_deref = TRUE]
             IN  CASE o.ub = "crash" -> Crash(b)
                   [] o.ub = "save_fails" ->
                          Return(Failed(b), OLAP_ERR_ROWSET_SAVE_FAILED)
                   [] OTHER -> Return([b EXCEPT !.rowset_meta =
                                          @ \cup {GarbageMeta(tablet)}],
                                      OLAP_SUCCESS)
        ELSE IF o.fail = "save"
             THEN Return(Failed(a), OLAP_ERR_ROWSET_SAVE_FAILED)
             ELSE Return([a EXCEPT !.rowset_meta =
                             @ \cup {MetaOf(tablet, Deref(rowset))}],
                         OLAP_SUCCESS)

\* "if (_related_tablet != nullptr) { ... }" of close: the related tablet's
\* pending dir under its push lock, then the save of _related_rowset.  The
\* schema version conversion that would produce _related_rowset is not
\* called, so res is still OLAP_SUCCESS at the test that follows it.
close_related(s, o) ==
    IF s._related_tablet = Null THEN Return(s, OLAP_SUCCESS)
    ELSE LET related == Deref(s._related_tablet)
             a == Count(Call(s, "lock_related"), "lock")
             b == Call(create_pending_dir(a, related, o.fail # "create_dirs_related"),
                       "unlock_related")
             c == IF b.ret # OLAP_SUCCESS THEN b
                  ELSE save_rowset(b, related, b._related_rowset, "save_related", o)
         IN  [c EXCEPT !.hist.related_failed =
                          c.pc = "live" /\ c.ret # OLAP_SUCCESS]

\* close_tablet_infos with the related tablet's info alone.
close_tablet_infos_related_only(s) ==
    IF s._related_tablet = Null THEN s
    ELSE LET related == Deref(s._related_tablet)
         IN  [Call(s, "add_tablet_info") EXCEPT
                 !.tablet_vec = Append(@, <<related, SchemaHashOf(related)>>)]

\* The tablet infos added to the caller's collection (the build without
\* BE_TEST; with BE_TEST nothing is added).
close_tablet_infos(s) ==
    LET primary == Deref(s._tablet)
        a == [Call(s, "add_tablet_info") EXCEPT
                 !.tablet_vec = Append(@, <<primary, SchemaHashOf(primary)>>)]
    IN  IF a._related_tablet = Null THEN a
        ELSE LET related == Deref(a._related_tablet)
             IN  [Call(a, "add_tablet_info") EXCEPT
                     !.tablet_vec = Append(@, <<related, SchemaHashOf(related)>>)]

\* DeltaWriter::close
close(s, o) ==
    LET a == ensure_init(s, o)
    IN  IF a.ret # OLAP_SUCCESS THEN a
        ELSE LET b == close_mem_table(a, o)
             IN  IF b.ret # OLAP_SUCCESS THEN b
                 ELSE LET c == save_rowset(close_build(b, o), Deref(b._tablet),
                                           close_build(b, o)._cur_rowset, "save", o)
                      IN  IF c.ret # OLAP_SUCCESS THEN c
                          ELSE LET d == close_related(c, o)
                               IN  IF d.ret # OLAP_SUCCESS THEN d
                                   ELSE Return([close_tablet_infos(d) EXCEPT
                                                   !._delta_written_success = TRUE,
                                                   !.hist.close_ok = TRUE],
                                               OLAP_SUCCESS)

\* ------------------------------------------------------------- teardown
\* TxnManager::delete_txn for a tablet.
delete_txn(s, tablet) ==
    [Call(s, "delete_txn") EXCEPT
        !.txns = @ \ {TxnKey(tablet)},
        !.hist.delete_calls = Append(@, TxnKey(tablet))]

\* StorageEngine::add_unused_rowset
add_unused_rowset(s, rowset) ==
    [Call(s, "add_unused_rowset") EXCEPT !.unused_rowsets = Append(@, rowset)]

\* _garbage_collection without its "if (_related_tablet != nullptr)" block.
_garbage_collection_primary_only(s) ==
    LET g == [s EXCEPT !.hist.gc_runs = @ + 1]
    IN  add_unused_rowset(delete_txn(g, _req.tablet_id), g._cur_rowset)

\* DeltaWriter::_garbage_collection
_garbage_collection(s) ==
    LET g == [s EXCEPT !.hist.gc_runs = @ + 1]
        a == add_unused_rowset(delete_txn(g, _req.tablet_id), g._cur_rowset)
    IN  IF a._related_tablet # Null
        THEN add_unused_rowset(delete_txn(a, Deref(a._related_tablet)),
                               a._related_rowset)
        ELSE a

\* The destructor without the test of _delta_written_success.
destructor_always_unwinds(s) ==
    [_garbage_collection(s) EXCEPT !._mem_table = Null, !._schema = Null,
                                   !.pc = "destroyed"]

\* DeltaWriter::~DeltaWriter
destructor(s) ==
    LET a == IF ~s._delta_written_success THEN _garbage_collection(s) ELSE s
    IN  [a EXCEPT !._mem_table = Null, !._schema = Null, !.pc = "destroyed"]

\* ------------------------------------------------------------- cancel
\* cancel taken for the abort of the load: it unwinds as the destructor does.
cancel_unwinds(s, dcheck_on) == Return(_garbage_collection(s), OLAP_SUCCESS)

\* DeltaWriter::cancel.  DCHECK(!_is_init) terminates the process in a build
\* with DCHECKs on and is nothing in a build without them.
cancel(s, dcheck_on) ==
    IF s._is_init /\ dcheck_on THEN Crash(s) ELSE Return(s, OLAP_SUCCESS)

\* ------------------------------------------------------------- the run
\* DeltaWriter::open and the constructor, for every request and every state
\* of the collaborators.  The constructor's initializer list does not name
\* _is_init and _col_ids: they start as the class declares them, false and
\* empty.
\* The members after the constructor, and the collaborators before the
\* first call.
Constructed ==
    /\ _tablet = Null
    /\ _cur_rowset = Null
    /\ _related_rowset = Null
    /\ _related_tablet = Null
    /\ _rowset_writer = Null
    /\ _mem_table = Null
    /\ _schema = Null
    /\ _tablet_schema = Null
    /\ _col_ids = <<>>
    /\ _is_init = FALSE
    /\ _delta_written_success = FALSE
    /\ txns = {}
    \* no pending data dir yet: the first init creates the tablet's, a later
    \* init or close finds it
    /\ pending_dirs = {}
    /\ next_rowset_id = 0
    /\ rowset_meta = {}
    /\ unused_rowsets = <<>>
    /\ tablet_vec = <<>>
    /\ pc = "live"
    /\ last_op = "open"
    /\ ret = OLAP_SUCCESS
    /\ trace = <<>>
    /\ cnt = [c \in CounterNames |-> 0]
    /\ hist = [any_fail |-> FALSE, prepared |-> {}, schema_change_seen |-> FALSE,
               inserted |-> {}, rotations |-> 0, null_deref |-> FALSE,
               close_ok |-> FALSE, delete_calls |-> <<>>,
               usage_after_insert |-> 0, rotated |-> FALSE,
               insert_after_failed_flush |-> FALSE, gc_runs |-> 0,
               failed_at |-> 0, vec_len0 |-> 0, flag0 |-> FALSE,
               related_failed |-> FALSE, failed_writes |-> {}]

Init ==
    /\ _req \in [tablet_id : {PrimaryTablet}, schema_hash : {SchemaHashOf(PrimaryTablet)},
                 partition_id : {"p"}, txn_id : {"txn"},
                 need_gen_rollup : BOOLEAN, slots : SlotShapes]
    /\ schema_changing \in BOOLEAN
    /\ tablet_schema = TabletColumns
    \* the new tablet is made by the schema change: without one there is none,
    \* and with one it may have been dropped since
    /\ tablet_mgr \in {m \in SUBSET Tablets : NewTablet \in m => schema_changing}
    /\ Constructed

CanCall == pc = "live" /\ cnt["call"] < MaxCalls

\* The caller writes one row; rows are numbered by the write that carries them.
Write ==
    /\ CanCall
    /\ \E size \in 1..MaxTupleSize, o \in WriteOutcomes :
          Becomes(write(BeginCall(Cur, "write"),
                        [id |-> cnt["write"] + 1, size |-> size], o))

Close ==
    /\ CanCall
    /\ \E o \in CloseOutcomes : Becomes(close(BeginCall(Cur, "close"), o))

Cancel ==
    /\ CanCall
    /\ \E dcheck_on \in BOOLEAN : Becomes(cancel(BeginCall(Cur, "cancel"), dcheck_on))

\* The instance is destroyed; nothing is called on it afterwards.
Teardown ==
    /\ pc = "live"
    /\ Becomes(destructor([Cur EXCEPT !.last_op = "teardown", !.trace = <<>>]))

Next == Write \/ Close \/ Cancel \/ Teardown

\* --------------------------------------- the run over schemas and shapes
\* Column names to make schemas of.
ColumnNames == <<"a", "b", "c", "d", "e">>
\* The tablet schemas: the first k column names, k up to MaxColumns.
Schemas == {SubSeq(ColumnNames, 1, k) : k \in 0..MaxColumns}
\* The row shapes that are a permutation of the column names of columns.
Permutations(columns) ==
    {p \in [1..Len(columns) -> Range(columns)] :
        \A i, j \in 1..Len(columns) : p[i] = p[j] => i = j}

\* A request on a known tablet with no schema change, for each schema and
\* each row shape that permutes its column names.
InitCols ==
    /\ tablet_schema \in Schemas
    /\ \E shape \in Permutations(tablet_schema) :
          _req = [tablet_id |-> PrimaryTablet,
                  schema_hash |-> SchemaHashOf(PrimaryTablet),
                  partition_id |-> "p", txn_id |-> "txn",
                  need_gen_rollup |-> FALSE, slots |-> shape]
    /\ schema_changing = FALSE
    /\ tablet_mgr = {PrimaryTablet}
    /\ Constructed

CanCallCols == cnt["call"] < MaxColsCalls

WriteCols == CanCallCols /\ Write

CloseCols == CanCallCols /\ Close

CancelCols == CanCallCols /\ Cancel

NextCols == WriteCols \/ CloseCols \/ CancelCols \/ Teardown

SpecCols == InitCols /\ [][NextCols]_vars

Spec == Init /\ [][Next]_vars

\* ------------------------------------------------------------- properties
InfoOf(tablet) == <<tablet, SchemaHashOf(tablet)>>
\* The calls init makes once per successful initialization.
InitSteps == {"get_tablet", "prepare_txn", "get_next_id", "new_rowset_writer", "init_ok"}
\* Nothing but open and cancel has been called on the live instance.
Created == pc = "live" /\ cnt["write"] = 0 /\ cnt["close"] = 0
\* No collaborator has been touched and no field has left its constructed value.
Untouched ==
    /\ _tablet = Null /\ _related_tablet = Null
    /\ _cur_rowset = Null /\ _related_rowset = Null
    /\ _rowset_writer = Null /\ _mem_table = Null
    /\ _schema = Null /\ _tablet_schema = Null /\ _col_ids = <<>>
    /\ ~_is_init /\ ~_delta_written_success
    /\ \A c \in CounterNames \ {"call", "cancel"} : cnt[c] = 0
    /\ txns = {} /\ next_rowset_id = 0 /\ rowset_meta = {}
    /\ unused_rowsets = <<>> /\ tablet_vec = <<>>
    /\ hist.prepared = {} /\ hist.delete_calls = <<>> /\ hist.gc_runs = 0

\* C1: when close never returned success, the destroyed instance has called
\* delete_txn for every (partition, txn, tablet, schema hash) whose prepare_txn
\* succeeded, the related tablet's included, and no tablet info was reported
\* to the caller.
C1_TeardownDeletesEveryPrepared ==
    (pc = "destroyed" /\ ~hist.close_ok) =>
        /\ hist.prepared \subseteq Range(hist.delete_calls)
        /\ tablet_vec = <<>>

\* C2: a close that returns success has set _delta_written_success, and the
\* destructor of an instance whose close returned success calls neither
\* delete_txn nor add_unused_rowset.
C2_SuccessMeansNoUnwind ==
    /\ (last_op = "close" /\ ret = OLAP_SUCCESS) => _delta_written_success
    /\ hist.close_ok => _delta_written_success
    /\ (pc = "destroyed" /\ hist.close_ok) =>
           /\ hist.delete_calls = <<>>
           /\ unused_rowsets = <<>>
           /\ hist.gc_runs = 0

C2_Witness == pc = "destroyed" /\ hist.close_ok /\ cnt["write"] >= 1

\* C3 as stated: over any sequence of write and close calls each step of
\* the initialization is made at most once.
C3_InitStepsNeverRepeated == \A c \in InitSteps : cnt[c] <= 1

\* C3 amended: init completes at most once; from then on no write or close
\* makes any of its steps again; and while it has not completed, every write
\* and close runs it again from the tablet lookup.
C3_InitCompletesOnce ==
    /\ [](/\ cnt["init_ok"] <= 1
          /\ _is_init <=> cnt["init_ok"] = 1
          /\ _is_init => \A c \in InitSteps : cnt[c] >= 1)
    /\ [][_is_init => /\ _is_init'
                      /\ \A c \in InitSteps : cnt'[c] = cnt[c]
                      /\ cnt'["prepare_txn_related"] = cnt["prepare_txn_related"]
                      /\ _col_ids' = _col_ids /\ _tablet' = _tablet]_vars
    /\ [][(~_is_init /\ last_op' \in {"write", "close"})
              => cnt'["get_tablet"] = cnt["get_tablet"] + 1]_vars

C3_Witness ==
    /\ _is_init /\ cnt["get_tablet"] = 2 /\ cnt["prepare_txn"] = 2
    /\ cnt["write"] + cnt["close"] = 3 /\ last_op = "write" /\ ret = OLAP_SUCCESS

\* C4: a write that inserted its row has rotated the MemTable if and only if
\* the memory usage right after the insert was at or above write_buffer_size;
\* and after a write that returned success the active MemTable is below the
\* threshold, a MemTable made by the rotation being empty.
C4_RotatesIffThreshold ==
    (last_op = "write" /\ pc = "live" /\ "insert" \in Range(trace)) =>
        /\ hist.rotated <=> hist.usage_after_insert >= write_buffer_size
        /\ hist.rotated => Deref(_mem_table).rows = <<>>
        /\ ret = OLAP_SUCCESS =>
               memory_usage(Deref(_mem_table)) < write_buffer_size

\* C5: no write inserts into a MemTable whose rotation flush failed, and the
\* write whose flush failed has returned the error with a new empty MemTable
\* in place.
C5_FlushFailureLeavesNewBuffer ==
    /\ ~hist.insert_after_failed_flush
    /\ (last_op = "write" /\ ret = ERR_FLUSH) =>
           /\ Deref(_mem_table).rows = <<>>
           /\ ~Deref(_mem_table).flush_failed

\* C6: with need_gen_rollup set, a schema change seen by init and no failing
\* collaborator, the first close returns success, has added the two tablet
\* infos, the primary's then the related tablet's, and has saved the meta of
\* the primary rowset and of the related tablet's rowset.
C6_DualWriteCloseSucceeds ==
    (/\ last_op = "close" /\ cnt["close"] = 1
     /\ _req.need_gen_rollup /\ hist.schema_change_seen /\ ~hist.any_fail) =>
        /\ ret = OLAP_SUCCESS
        /\ tablet_vec = <<InfoOf(PrimaryTablet), InfoOf(NewTablet)>>
        /\ _cur_rowset # Null /\ _related_rowset # Null
        /\ rowset_meta = {MetaOf(PrimaryTablet, Deref(_cur_rowset)),
                          MetaOf(NewTablet, Deref(_related_rowset))}

\* C7: without a schema change and without a failing collaborator, the
\* first close, after any writes, returns success, has added the primary
\* tablet's info and nothing else, has built one rowset and saved its meta
\* once.
C7_NormalLoad ==
    (last_op = "close" /\ cnt["close"] = 1 /\ ~schema_changing /\ ~hist.any_fail) =>
        /\ ret = OLAP_SUCCESS /\ pc = "live"
        /\ tablet_vec = <<InfoOf(PrimaryTablet)>>
        /\ cnt["build"] = 1 /\ Deref(_rowset_writer).built = 1
        /\ cnt["save"] = 1 /\ cnt["save_related"] = 0
        /\ _cur_rowset # Null
        /\ rowset_meta = {MetaOf(PrimaryTablet, Deref(_cur_rowset))}

C7_Witness ==
    /\ last_op = "close" /\ cnt["close"] = 1 /\ ~schema_changing /\ ~hist.any_fail
    /\ cnt["write"] = 2 /\ hist.rotations >= 1

C7_WitnessNoWrite ==
    /\ last_op = "close" /\ cnt["close"] = 1 /\ ~schema_changing /\ ~hist.any_fail
    /\ cnt["write"] = 0

\* C8: when the TabletManager does not know the request's tablet, every
\* write and close returns OLAP_ERR_TABLE_NOT_FOUND, and no prepare_txn, no
\* lock, no directory, no rowset id and no initialization ever happens.
C8_UnknownTablet ==
    (_req.tablet_id \notin tablet_mgr) =>
        /\ last_op \in {"write", "close"} => ret = OLAP_ERR_TABLE_NOT_FOUND
        /\ cnt["prepare_txn"] = 0 /\ cnt["prepare_txn_related"] = 0
        /\ txns = {} /\ hist.prepared = {}
        /\ cnt["lock"] = 0
        /\ cnt["create_dirs"] = 0
        /\ cnt["get_next_id"] = 0 /\ next_rowset_id = 0
        /\ ~_is_init /\ _tablet = Null /\ _mem_table = Null /\ _rowset_writer = Null
        /\ cnt["get_tablet"] = cnt["write"] + cnt["close"]

C8_Witness ==
    /\ _req.tablet_id \notin tablet_mgr
    /\ cnt["write"] >= 1 /\ cnt["close"] >= 1 /\ cnt["call"] = MaxCalls

\* C9: the destructor of an instance whose init never completed calls neither
\* delete_txn nor add_unused_rowset, and the unwind runs at most once.
C9_TeardownNoOpWhenUninitialized ==
    /\ hist.gc_runs <= 1
    /\ (pc = "destroyed" /\ ~_is_init) =>
           /\ hist.delete_calls = <<>>
           /\ unused_rowsets = <<>>

\* C10: after open and any number of cancel calls, with no write or close
\* yet, nothing has been looked up, locked, prepared, created or allocated,
\* every field is as constructed, and every call so far returned success.
C10_OpenAndCancelArePure ==
    Created => (Untouched /\ ret = OLAP_SUCCESS /\ last_op \in {"open", "cancel"})

C10_Witness == Created /\ cnt["cancel"] = MaxCalls /\ last_op = "cancel"

\* ---------------------------------------------------------------------
\* C11  The push lock is held only around prepare_txn, the schema change
\* detection and the creation of the pending dir: no insert, flush, build,
\* rowset id allocation, writer init or metadata save of a call happens
\* while the instance holds a tablet lock, and every lock a call took is
\* released when it returns, on success and on every error return.
LockEvents == {"lock", "lock_related", "obtain_header_rdlock"}

UnlockEvents == {"unlock", "unlock_related", "release_header_lock"}

\* What the code does between taking a tablet lock and releasing it.
UnderLockEvents ==
    {"prepare_txn", "get_schema_change_request", "get_tablet_related",
     "prepare_txn_related", "create_dirs"}

IngestionEvents ==
    {"insert", "flush", "mem_close", "build", "get_next_id", "writer_init",
     "save", "save_related", "add_tablet_info"}

\* The number of tablet locks held just before the i-th event of tr.
HeldBefore(tr, i) ==
    Cardinality({j \in 1..(i - 1) : tr[j] \in LockEvents})
        - Cardinality({j \in 1..(i - 1) : tr[j] \in UnlockEvents})

C11_LockOnlyAroundPrepare ==
    /\ \A i \in 1..Len(trace) :
          /\ trace[i] \in IngestionEvents => HeldBefore(trace, i) = 0
          /\ (HeldBefore(trace, i) > 0 /\ trace[i] \notin LockEvents \cup UnlockEvents)
                 => trace[i] \in UnderLockEvents
    /\ HeldBefore(trace, Len(trace) + 1) = 0

\* A close that failed under the related tablet's push lock, after an init
\* that took the primary tablet's push lock, and returned the error.
C11_Witness ==
    /\ last_op = "close" /\ ret = ERR_CREATE_DIRS
    /\ "lock" \in Range(trace) /\ "lock_related" \in Range(trace)
    /\ "build" \in Range(trace)

\* ---------------------------------------------------------------------
\* C12  No write, close or teardown uses an absent object: no rowset is
\* read through a null pointer and no call ends the process; a close whose
\* build() produced no rowset returns an error without going on to the
\* save, which reads the rowset's id and meta.
C12_NoAbsentObjectUsed ==
    /\ ~hist.null_deref
    /\ last_op \in {"write", "close", "teardown"} => pc # "crashed"
    /\ (last_op = "close" /\ hist.failed_at > 0 /\ trace[hist.failed_at] = "build")
          => /\ ret \notin {OLAP_SUCCESS, NO_RETURN}
             /\ "save" \notin Range(trace)

\* ---------------------------------------------------------------------
\* C13  Every fallible step returns at once on its first failure: a write or
\* close in which a collaborator call failed (tablet lookup, prepare_txn,
\* the related tablet's lookup or prepare_txn, create_dirs, rowset id
\* allocation, writer init, flush, build, metadata save) returns an error
\* and makes no further call after the failed one, apart from releasing the
\* lock it holds; an init whose related prepare_txn failed does not complete.
C13_FirstFailureReturns ==
    (last_op \in {"write", "close"} /\ hist.failed_at > 0) =>
        /\ pc = "live"
        /\ ret \notin {OLAP_SUCCESS, NO_RETURN}
        /\ \A i \in (hist.failed_at + 1)..Len(trace) : trace[i] \in UnlockEvents
        /\ trace[hist.failed_at] = "prepare_txn_related" => ~_is_init

\* ---------------------------------------------------------------------
\* C14  With a related tablet, when the primary rowset was built and saved
\* and a later step of close for the related tablet fails (create_dirs or
\* the related save), close returns that step's error, appends nothing to
\* tablet_vec and leaves _delta_written_success as it was (false when no
\* close succeeded before).  The teardown that follows deletes the txn of
\* the primary and of the related tablet and hands the built rowset to
\* add_unused_rowset; the saved rowset meta is not removed.
RelatedStepFailed == hist.related_failed /\ _cur_rowset # Null

C14_RelatedFailureUnwinds ==
    /\ (last_op = "close" /\ RelatedStepFailed) =>
          /\ ret = IF "save_related" \in Range(trace)
                   THEN OLAP_ERR_ROWSET_SAVE_FAILED ELSE ERR_CREATE_DIRS
          /\ Len(tablet_vec) = hist.vec_len0
          /\ _delta_written_success = hist.flag0
          /\ ~hist.close_ok => (~_delta_written_success /\ tablet_vec = <<>>)
          /\ MetaOf(PrimaryTablet, Deref(_cur_rowset)) \in rowset_meta
    /\ (pc = "destroyed" /\ RelatedStepFailed /\ ~hist.close_ok) =>
          /\ {TxnKey(PrimaryTablet), TxnKey(NewTablet)} \subseteq Range(hist.delete_calls)
          /\ txns = {}
          /\ _cur_rowset \in Range(unused_rowsets)
          /\ MetaOf(PrimaryTablet, Deref(_cur_rowset)) \in rowset_meta
          /\ tablet_vec = <<>>

\* The teardown after a close that failed creating the related tablet's
\* pending dir, with rows written before.
C14_Witness ==
    /\ pc = "destroyed" /\ RelatedStepFailed /\ ~hist.close_ok
    /\ cnt["write"] >= 1 /\ cnt["save"] >= 1 /\ cnt["save_related"] = 0
    /\ _related_tablet = Ptr(NewTablet)

\* ---------------------------------------------------------------------
\* C15  Commit is all or nothing: _delta_written_success implies that init
\* completed, that the primary rowset was built and its meta saved and, with
\* a related tablet, that a related rowset exists and its meta was saved;
\* and a close that returns an error leaves tablet_vec and the flag as they
\* were when it was called.
C15_CommitAllOrNothing ==
    /\ _delta_written_success =>
          /\ _is_init
          /\ _cur_rowset # Null
          /\ MetaOf(PrimaryTablet, Deref(_cur_rowset)) \in rowset_meta
          /\ _related_tablet # Null =>
                /\ _related_rowset # Null
                /\ MetaOf(NewTablet, Deref(_related_rowset)) \in rowset_meta
    /\ (last_op = "close" /\ pc = "live" /\ ret # OLAP_SUCCESS) =>
          /\ Len(tablet_vec) = hist.vec_len0
          /\ _delta_written_success = hist.flag0

\* ---------------------------------------------------------------------
\* C16  After a teardown with _delta_written_success false, what
\* add_unused_rowset received is exactly the rowsets that were built: the
\* primary rowset if a close built one, the related rowset if one was
\* produced, and never a null rowset.
C16_CollectorGetsBuiltOnly ==
    (pc = "destroyed" /\ ~_delta_written_success) =>
        /\ Null \notin Range(unused_rowsets)
        /\ Range(unused_rowsets) = {_cur_rowset, _related_rowset} \ {Null}

\* ---------------------------------------------------------------------
\* C17  _related_tablet is assigned only by an init, and only when
\* need_gen_rollup is set and the primary tablet has a schema change
\* request.  Otherwise _related_tablet stays null, prepare_txn and
\* delete_txn are only ever called for the primary tablet, no close takes
\* the related push lock or makes a second save, and a close that succeeds
\* made exactly one save and appended exactly one tablet info, the primary's.
NoMigration == ~(_req.need_gen_rollup /\ schema_changing)

TimesIn(tr, e) == Cardinality({i \in 1..Len(tr) : tr[i] = e})

C17_RelatedOnlyUnderMigration ==
    /\ [](NoMigration =>
            /\ _related_tablet = Null
            /\ cnt["prepare_txn_related"] = 0
            /\ hist.prepared \subseteq {TxnKey(PrimaryTablet)}
            /\ Range(hist.delete_calls) \subseteq {TxnKey(PrimaryTablet)}
            /\ cnt["save_related"] = 0
            /\ "lock_related" \notin Range(trace)
            /\ TimesIn(trace, "save") <= 1
            /\ (last_op = "close" /\ pc = "live" /\ ret = OLAP_SUCCESS) =>
                  /\ TimesIn(trace, "save") = 1
                  /\ tablet_vec = SubSeq(tablet_vec, 1, hist.vec_len0)
                                     \o <<InfoOf(PrimaryTablet)>>)
    /\ [][_related_tablet' # _related_tablet =>
             (~_is_init /\ cnt'["get_tablet"] = cnt["get_tablet"] + 1)]_vars

\* A close that succeeded after a write, on a tablet under schema change
\* for a request that does not ask for the rollup.
C17_Witness ==
    /\ schema_changing /\ ~_req.need_gen_rollup
    /\ last_op = "close" /\ ret = OLAP_SUCCESS /\ cnt["write"] >= 1
    /\ NewTablet \in tablet_mgr

\* ---------------------------------------------------------------------
\* C18  For every schema and every row shape that permutes its column
\* names: once init has completed, _col_ids has one entry per schema
\* column, in schema order, the entry of a column being the 0-based
\* position of the slot with that column's name (schema [a,b,c] and shape
\* [c,a,b] give [1,2,0]); a row routed through _col_ids has, at each schema
\* column, the value of the field with that column's name; and the mapping
\* is built once: it is empty until init completes and no later call adds
\* to it or changes it.
\* The 1-based position of the slot named name.
PositionOf(name, slots) == CHOOSE i \in 1..Len(slots) : slots[i] = name

\* MemTable::insert's use of the mapping: the record in schema order of a
\* row given by its fields in slot order.
Routed(row, col_ids) == [c \in 1..Len(col_ids) |-> row[col_ids[c] + 1]]

\* The rows of a shape: a value per slot.
RowsOf(slots) == [1..Len(slots) -> BOOLEAN]

C18_ColIdsFollowSchema ==
    /\ [](IF _is_init
          THEN /\ Len(_col_ids) = Len(tablet_schema)
               /\ \A c \in 1..Len(tablet_schema) :
                     /\ _col_ids[c] \in 0..(Len(_req.slots) - 1)
                     /\ _req.slots[_col_ids[c] + 1] = tablet_schema[c]
               /\ \A row \in RowsOf(_req.slots) :
                     Routed(row, _col_ids) =
                         [c \in 1..Len(tablet_schema) |->
                             row[PositionOf(tablet_schema[c], _req.slots)]]
               /\ (tablet_schema = <<"a", "b", "c">> /\ _req.slots = <<"c", "a", "b">>)
                     => _col_ids = <<1, 2, 0>>
          ELSE _col_ids = <<>>)
    /\ [][_is_init => _col_ids' = _col_ids]_vars

\* Init completed for schema [a,b,c] and shape [c,a,b], and a further call
\* was made on the instance.
C18_Witness ==
    /\ _is_init /\ cnt["call"] >= 2
    /\ tablet_schema = <<"a", "b", "c">> /\ _req.slots = <<"c", "a", "b">>
    /\ _col_ids = <<1, 2, 0>>

\* ---------------------------------------------------------------------
\* C19  No row is lost or duplicated across rotations: after writes that
\* all returned success and one close that returned success, the batches
\* added to the RowsetWriter, one per rotation flush and then the one of
\* close, hold every written row exactly once, in the order written; build
\* was called once, after the last batch, and the rowset it made holds
\* exactly these batches; every MemTable made was flushed once, and the
\* last one got no insert after its flush.
\* The rows of a sequence of batches, in order.
RECURSIVE Flatten(_)
Flatten(batches) ==
    IF batches = <<>> THEN <<>> ELSE Head(batches) \o Flatten(Tail(batches))

WritesThenClose ==
    /\ last_op = "close" /\ pc = "live" /\ ret = OLAP_SUCCESS
    /\ cnt["close"] = 1 /\ hist.failed_writes = {}

C19_NoRowLostOrDuplicated ==
    WritesThenClose =>
        LET batches == Deref(_rowset_writer).batches
            rows == Flatten(batches)
        IN  /\ Len(rows) = cnt["write"]
            /\ \A k \in 1..Len(rows) : rows[k].id = k
            /\ Len(batches) = hist.rotations + 1
            /\ Len(batches) = cnt["new_mem_table"]
            /\ cnt["build"] = 1
            /\ \A i, j \in 1..Len(trace) :
                  (trace[i] = "mem_close" /\ trace[j] = "build") => i < j
            /\ _cur_rowset # Null => Deref(_cur_rowset).batches = batches
            /\ Deref(_mem_table).flushed = 1
            /\ Deref(_mem_table).late_inserts = 0

\* Two writes, the first of which rotated the MemTable, then the close
\* that flushed the second row.
C19_Witness ==
    /\ WritesThenClose /\ cnt["write"] = 2 /\ hist.rotations = 1
    /\ _cur_rowset # Null
    /\ Len(Deref(_cur_rowset).batches) = 2
    /\ Len(Deref(_cur_rowset).batches[2]) = 1

\* ---------------------------------------------------------------------
\* C20  A row whose write returned an error is not part of the load: after
\* a close that returned success, no batch added to the RowsetWriter holds
\* a row whose write returned an error.
C20_FailedRowNotLoaded ==
    (last_op = "close" /\ pc = "live" /\ ret = OLAP_SUCCESS) =>
        \A row \in Range(Flatten(Deref(_rowset_writer).batches)) :
            row.id \notin hist.failed_writes

====
